---------------------------- MODULE Spec2Model ----------------------------
(***************************************************************************)
(* Model of paragraph_threads.c: a ring of NUM_THREADS worker threads,     *)
(* each gated by its own counting semaphore, printing the words of a       *)
(* paragraph first with the semaphores (normal mode) and then without      *)
(* them (chaos mode).                                                      *)
(*                                                                         *)
(* src/paragraph_threads.c holds two revisions of the program:             *)
(*   revision 1 = lines 1..258   (words dealt out round-robin: thread i    *)
(*                                gets words i, i+N, i+2N, ...)            *)
(*   revision 2 = lines 259..516 (words dealt out in contiguous blocks)    *)
(* The semaphore protocol, the orchestration and main are the same in      *)
(* both.  The variable revision selects which one runs.                    *)
(*                                                                         *)
(* Words are identified by their index 0..total_words-1 in all_words.      *)
(* NUM_THREADS and total_words are fixed by the program text (5 and 33);   *)
(* here they are drawn in Init from 1..MaxThreads and 0..MaxWords.         *)
(*                                                                         *)
(* Under Spec every malloc, sem_init, sem_destroy and pthread_create        *)
(* succeeds.  EnvSpec adds what the C library may answer instead: a NULL    *)
(* from malloc (for a zero-size request on a platform that answers so, or   *)
(* for want of memory), and a failing sem_init, pthread_create or           *)
(* sem_destroy.                                                             *)
(***************************************************************************)
EXTENDS Integers, Sequences, FiniteSets

\* Bounds of the model.
MaxThreads == 3
MaxWords == 5

VARIABLES
    revision,      \* 1 or 2: which revision of the program runs
    NUM_THREADS,   \* #define NUM_THREADS
    total_words,   \* global total_words
    script,        \* the calls main makes between init_semaphores and destroy_semaphores
    semaphores,    \* global sem_t semaphores[NUM_THREADS]: its count, or Destroyed
    main_pc,       \* position of the main thread
    ip,            \* index in script of the call main is executing
    loop_i,        \* print_paragraph's loop variable i
    word_index,    \* print_paragraph's local word_index (revision 2)
    thread_data,   \* print_paragraph's local thread_data[NUM_THREADS]
    thr,           \* each worker thread: its position, its loop variable i, and
                   \* whether pthread_join has returned for it
    out,           \* stdout: one entry per word printed
    malloc_zero_null, \* the platform's malloc(0) returns NULL (C leaves it to the
                      \* implementation: NULL or a unique pointer)
    fault,         \* the library call that has failed, or "none"
    stderr_log,    \* the messages perror has written
    destroy_failed,\* some sem_destroy has returned -1 (the code drops the result)
    exit_status,   \* the process's exit status, or Running
    ops            \* per worker: the sem_wait and sem_post calls it has made since
                   \* it was created, and on which semaphores

\* What the C library has answered and what the process has reported.
env == <<malloc_zero_null, fault, stderr_log, destroy_failed>>

vars == <<revision, NUM_THREADS, total_words, script, semaphores, main_pc, ip,
          loop_i, word_index, thread_data, thr, out, env, exit_status, ops>>

Threads == 0 .. (NUM_THREADS - 1)

\* The value of a sem_t after sem_destroy and before the next sem_init.
Destroyed == -1

\* thread_data[i] before print_paragraph has filled it in.
NoData == [thread_id |-> -1, words |-> << >>, word_count |-> 0,
           sem_wait |-> -1, sem_signal |-> -1, is_chaos_mode |-> 0]

\* exit_status while the process runs.
Running == -1

\* EXIT_FAILURE, and the 0 main returns.
ExitFailure == 1

ExitSuccess == 0

\* A worker that has made no semaphore call yet.
NoOps == [waits |-> 0, posts |-> 0, waited |-> {}, posted |-> {}]

\* main's calls between init_semaphores() and destroy_semaphores().
MainScript == << "sync", "reset", "chaos" >>

(***************************************************************************)
(* print_paragraph: the share of thread i                                  *)
(***************************************************************************)

\* Revision 1: for (j = i; j < total_words; j += NUM_THREADS) count++;
StripedCount(i) == Cardinality({j \in 0 .. (total_words - 1) : j % NUM_THREADS = i})

\* Mutant of BlockCount: the remainder is not dealt out.
BlockCountNoExtra(i) == total_words \div NUM_THREADS

\* Mutant of BlockCount: the extra words go to the last threads.
BlockCountExtraLast(i) ==
    (total_words \div NUM_THREADS)
        + (IF i >= NUM_THREADS - (total_words % NUM_THREADS) THEN 1 ELSE 0)

\* Revision 2: words_per_thread + (i < extra_words ? 1 : 0)
BlockCount(i) ==
    (total_words \div NUM_THREADS) + (IF i < total_words % NUM_THREADS THEN 1 ELSE 0)

WordCount(i) == IF revision = 1 THEN StripedCount(i) ELSE BlockCount(i)

\* Revision 1: words[word_pos++] = all_words[j] for j = i, i+N, ...
StripedWords(i) == [k \in 1 .. StripedCount(i) |-> i + (k - 1) * NUM_THREADS]

\* Revision 2: words[j] = all_words[word_index++], from the running word_index wi.
BlockWords(i, wi) == [k \in 1 .. BlockCount(i) |-> wi + (k - 1)]

ShareWords(i, wi) == IF revision = 1 THEN StripedWords(i) ELSE BlockWords(i, wi)

\* Mutant of WaitIndex: the thread waits on the next thread's semaphore.
WaitOnNext(i) == (i + 1) % NUM_THREADS

\* thread_data[i].sem_wait = &semaphores[i]
WaitIndex(i) == i

\* Mutant of SignalIndex: the thread signals its own semaphore.
SignalSelf(i) == i

\* thread_data[i].sem_signal = &semaphores[(i + 1) % NUM_THREADS]
SignalIndex(i) == (i + 1) % NUM_THREADS

\* print_paragraph(mode): mode 0 for "sync", 1 for "chaos"
ModeOf(op) == IF op = "chaos" THEN 1 ELSE 0

(***************************************************************************)
(* Semaphores                                                              *)
(***************************************************************************)

\* Mutants of InitialCount: every semaphore starts open; every one starts closed.
AllOpenCount(i) == 1

AllClosedCount(i) == 0

\* sem_init(&semaphores[i], 0, (i == 0) ? 1 : 0)
InitialCount(i) == IF i = 0 THEN 1 ELSE 0

InitSemaphores == [i \in Threads |-> InitialCount(i)]

DestroySemaphores == [i \in Threads |-> Destroyed]

(***************************************************************************)
(* main                                                                    *)
(***************************************************************************)

\* Where main goes when it starts the call at index k of the script.
PcAt(k) ==
    IF k > Len(script) THEN "destroy"
    ELSE IF script[k] = "reset" THEN "reset_destroy"
    ELSE "create"

\* init_semaphores() at the start of main.
MainInitSemaphores ==
    /\ main_pc = "init"
    /\ semaphores' = InitSemaphores
    /\ ip' = 1
    /\ main_pc' = PcAt(1)
    /\ loop_i' = 0
    /\ word_index' = 0
    /\ UNCHANGED <<env, exit_status, ops, revision, NUM_THREADS, total_words,
                   script, thread_data, thr, out>>

\* malloc(word_count * sizeof(char*)) returns NULL because the size is 0 and the
\* platform's malloc answers NULL to that.
MallocZeroFails(i) == malloc_zero_null /\ WordCount(i) = 0

\* One iteration of print_paragraph's first loop: fill thread_data[i] and
\* pthread_create the thread.
Create ==
    /\ main_pc = "create"
    /\ loop_i < NUM_THREADS
    /\ ~MallocZeroFails(loop_i)
    /\ ops' = [ops EXCEPT ![loop_i] = NoOps]
    /\ LET i == loop_i
           ws == ShareWords(i, word_index)
       IN /\ thread_data' = [thread_data EXCEPT ![i] =
                 [thread_id |-> i, words |-> ws, word_count |-> WordCount(i),
                  sem_wait |-> WaitIndex(i), sem_signal |-> SignalIndex(i),
                  is_chaos_mode |-> ModeOf(script[ip])]]
          /\ word_index' = IF revision = 1 THEN word_index ELSE word_index + Len(ws)
          /\ thr' = [thr EXCEPT ![i] = [pc |-> "loop", i |-> 0, joined |-> FALSE]]
          /\ loop_i' = IF i + 1 < NUM_THREADS THEN i + 1 ELSE 0
          /\ main_pc' = IF i + 1 < NUM_THREADS THEN "create" ELSE "join"
    /\ UNCHANGED <<env, exit_status, revision, NUM_THREADS, total_words,
                   script, semaphores, ip, out>>

\* Mutant of Joinable: pthread_join returns whether or not the thread has returned.
JoinWithoutWaiting(i) == TRUE

\* Whether pthread_join(threads[i]) can return: the thread has returned.
Joinable(i) == thr[i].pc = "done"

\* One iteration of print_paragraph's second loop: pthread_join(threads[i]) and
\* free(thread_data[i].words); after the last one print_paragraph returns.
Join ==
    /\ main_pc = "join"
    /\ loop_i < NUM_THREADS
    /\ Joinable(loop_i)
    /\ thr' = [thr EXCEPT ![loop_i].joined = TRUE]
    /\ IF loop_i + 1 < NUM_THREADS
       THEN /\ loop_i' = loop_i + 1
            /\ UNCHANGED <<main_pc, ip, word_index>>
       ELSE /\ loop_i' = 0
            /\ word_index' = 0
            /\ ip' = ip + 1
            /\ main_pc' = PcAt(ip + 1)
    /\ UNCHANGED <<env, exit_status, ops, revision, NUM_THREADS, total_words,
                   script, semaphores, thread_data, out>>

\* reset_semaphores(): first destroy_semaphores() ...
ResetDestroy ==
    /\ main_pc = "reset_destroy"
    /\ semaphores' = DestroySemaphores
    /\ main_pc' = "reset_init"
    /\ UNCHANGED <<env, exit_status, ops, revision, NUM_THREADS, total_words,
                   script, ip, loop_i, word_index, thread_data, thr, out>>

\* ... then init_semaphores().
ResetInit ==
    /\ main_pc = "reset_init"
    /\ semaphores' = InitSemaphores
    /\ ip' = ip + 1
    /\ main_pc' = PcAt(ip + 1)
    /\ UNCHANGED <<env, exit_status, ops, revision, NUM_THREADS, total_words,
                   script, loop_i, word_index, thread_data, thr, out>>

\* The cleanup at the end of main: destroy_semaphores(); free_words(); return 0.
MainCleanup ==
    /\ main_pc = "destroy"
    /\ semaphores' = DestroySemaphores
    /\ main_pc' = "exit"
    /\ exit_status' = ExitSuccess
    /\ UNCHANGED <<env, ops, revision, NUM_THREADS, total_words, script, ip,
                   loop_i, word_index, thread_data, thr, out>>

(***************************************************************************)
(* print_thread                                                            *)
(***************************************************************************)

\* Mutant of UsesSemaphores: the mode flag is not looked at.
AlwaysUsesSemaphores(t) == TRUE

\* if (!data->is_chaos_mode)
UsesSemaphores(t) == thread_data[t].is_chaos_mode = 0

\* Mutant of CanAcquire: sem_wait returns at once, whatever the count.
AcquireWithoutWaiting(t) == TRUE

\* sem_wait can return: the count is positive.
CanAcquire(t) == semaphores[thread_data[t].sem_wait] > 0

\* Loop test passed, normal mode: sem_wait(data->sem_wait).
SemWait(t) ==
    /\ thr[t].pc = "loop"
    /\ thr[t].i < thread_data[t].word_count
    /\ UsesSemaphores(t)
    /\ CanAcquire(t)
    /\ semaphores' = [semaphores EXCEPT ![thread_data[t].sem_wait] = @ - 1]
    /\ ops' = [ops EXCEPT ![t].waits = @ + 1,
                          ![t].waited = @ \cup {thread_data[t].sem_wait}]
    /\ thr' = [thr EXCEPT ![t].pc = "emit"]
    /\ UNCHANGED <<env, exit_status, revision, NUM_THREADS, total_words,
                   script, main_pc, ip, loop_i, word_index, thread_data, out>>

\* Loop test passed, chaos mode: no sem_wait.
SkipWait(t) ==
    /\ thr[t].pc = "loop"
    /\ thr[t].i < thread_data[t].word_count
    /\ ~UsesSemaphores(t)
    /\ thr' = [thr EXCEPT ![t].pc = "emit"]
    /\ UNCHANGED <<env, exit_status, ops, revision, NUM_THREADS, total_words,
                   script, semaphores, main_pc, ip, loop_i, word_index,
                   thread_data, out>>

\* Mutant of Emit: every iteration prints words[0].
EmitFirstWord(t) ==
    /\ thr[t].pc = "emit"
    /\ out' = Append(out, [run |-> ip, tid |-> thread_data[t].thread_id,
                           word |-> thread_data[t].words[1]])
    /\ thr' = [thr EXCEPT ![t].pc = "post"]
    /\ UNCHANGED <<env, exit_status, ops, revision, NUM_THREADS, total_words,
                   script, semaphores, main_pc, ip, loop_i, word_index,
                   thread_data>>

\* usleep((rand() % 91 + 10) * 1000); printf("Thread %d: %s", thread_id + 1, words[i])
Emit(t) ==
    /\ thr[t].pc = "emit"
    /\ out' = Append(out, [run |-> ip, tid |-> thread_data[t].thread_id,
                           word |-> thread_data[t].words[thr[t].i + 1]])
    /\ thr' = [thr EXCEPT ![t].pc = "post"]
    /\ UNCHANGED <<env, exit_status, ops, revision, NUM_THREADS, total_words,
                   script, semaphores, main_pc, ip, loop_i, word_index,
                   thread_data>>

\* Normal mode: sem_post(data->sem_signal) (revision 1: then usleep(1000)); i++.
SemPost(t) ==
    /\ thr[t].pc = "post"
    /\ UsesSemaphores(t)
    /\ semaphores' = [semaphores EXCEPT ![thread_data[t].sem_signal] = @ + 1]
    /\ ops' = [ops EXCEPT ![t].posts = @ + 1,
                          ![t].posted = @ \cup {thread_data[t].sem_signal}]
    /\ thr' = [thr EXCEPT ![t].pc = "loop", ![t].i = @ + 1]
    /\ UNCHANGED <<env, exit_status, revision, NUM_THREADS, total_words,
                   script, main_pc, ip, loop_i, word_index, thread_data, out>>

\* Chaos mode: no sem_post; i++.
SkipPost(t) ==
    /\ thr[t].pc = "post"
    /\ ~UsesSemaphores(t)
    /\ thr' = [thr EXCEPT ![t].pc = "loop", ![t].i = @ + 1]
    /\ UNCHANGED <<env, exit_status, ops, revision, NUM_THREADS, total_words,
                   script, semaphores, main_pc, ip, loop_i, word_index,
                   thread_data, out>>

\* Loop test failed: return NULL.
Return(t) ==
    /\ thr[t].pc = "loop"
    /\ thr[t].i >= thread_data[t].word_count
    /\ thr' = [thr EXCEPT ![t].pc = "done"]
    /\ UNCHANGED <<env, exit_status, ops, revision, NUM_THREADS, total_words,
                   script, semaphores, main_pc, ip, loop_i, word_index,
                   thread_data, out>>

(***************************************************************************)
(* Library calls that fail                                                 *)
(***************************************************************************)

\* exit(status): the process ends, and with it every thread.
KilledThreads ==
    [t \in Threads |->
        IF thr[t].pc \in {"loop", "emit", "post"} THEN [thr[t] EXCEPT !.pc = "killed"]
        ELSE thr[t]]

\* perror(msg); exit(EXIT_FAILURE);
FailFast(call, msg) ==
    /\ fault' = call
    /\ stderr_log' = Append(stderr_log, msg)
    /\ exit_status' = ExitFailure
    /\ main_pc' = "exit"
    /\ thr' = KilledThreads

\* init_semaphores(), from main or from reset_semaphores(): sem_init fails for
\* semaphore i, after the semaphores before it have been initialized.
SemInitFails ==
    /\ main_pc \in {"init", "reset_init"}
    /\ \E i \in Threads :
          semaphores' = [j \in Threads |->
                            IF j < i THEN InitialCount(j) ELSE semaphores[j]]
    /\ FailFast("sem_init", "sem_init failed")
    /\ UNCHANGED <<malloc_zero_null, destroy_failed, ops, revision, NUM_THREADS,
                   total_words, script, ip, loop_i, word_index, thread_data, out>>

\* print_paragraph: thread_data[i].words == NULL after malloc.
AllocFailed(call) ==
    /\ main_pc = "create"
    /\ loop_i < NUM_THREADS
    /\ thread_data' = [thread_data EXCEPT ![loop_i] =
           [NoData EXCEPT !.thread_id = loop_i, !.word_count = WordCount(loop_i)]]
    /\ FailFast(call, "malloc failed")
    /\ UNCHANGED <<malloc_zero_null, destroy_failed, ops, revision, NUM_THREADS,
                   total_words, script, semaphores, ip, loop_i, word_index, out>>

\* The share is empty and the platform's malloc(0) returns NULL.
CreateZeroAllocFails ==
    /\ main_pc = "create"
    /\ loop_i < NUM_THREADS
    /\ MallocZeroFails(loop_i)
    /\ AllocFailed("malloc_zero")

\* malloc returns NULL for want of memory.
CreateMallocFails ==
    /\ main_pc = "create"
    /\ loop_i < NUM_THREADS
    /\ ~MallocZeroFails(loop_i)
    /\ AllocFailed("malloc")

\* Mutant of CreateThreadFails: the failure is reported and the loop goes on
\* without the thread.
CreateThreadFailsGoesOn ==
    /\ main_pc = "create"
    /\ loop_i + 1 < NUM_THREADS
    /\ ~MallocZeroFails(loop_i)
    /\ fault' = "pthread_create"
    /\ stderr_log' = Append(stderr_log, "pthread_create failed")
    /\ thr' = [thr EXCEPT ![loop_i] = [pc |-> "done", i |-> 0, joined |-> FALSE]]
    /\ loop_i' = loop_i + 1
    /\ UNCHANGED <<malloc_zero_null, destroy_failed, exit_status, ops, revision,
                   NUM_THREADS, total_words, script, semaphores, main_pc, ip,
                   word_index, thread_data, out>>

\* pthread_create returns nonzero, after thread_data[i] has been filled in.
CreateThreadFails ==
    /\ main_pc = "create"
    /\ loop_i < NUM_THREADS
    /\ ~MallocZeroFails(loop_i)
    /\ thread_data' = [thread_data EXCEPT ![loop_i] =
           [thread_id |-> loop_i, words |-> ShareWords(loop_i, word_index),
            word_count |-> WordCount(loop_i),
            sem_wait |-> WaitIndex(loop_i), sem_signal |-> SignalIndex(loop_i),
            is_chaos_mode |-> ModeOf(script[ip])]]
    /\ FailFast("pthread_create", "pthread_create failed")
    /\ UNCHANGED <<malloc_zero_null, destroy_failed, ops, revision, NUM_THREADS,
                   total_words, script, semaphores, ip, loop_i, word_index, out>>

\* destroy_semaphores() with sem_destroy returning -1 for semaphore i: the
\* result is not looked at, and the loop and the caller go on.
DestroyWithFailure(i) ==
    /\ semaphores' = [j \in Threads |-> IF j = i THEN semaphores[j] ELSE Destroyed]
    /\ destroy_failed' = TRUE

\* reset_semaphores() with a failing sem_destroy.
ResetDestroyFails ==
    /\ main_pc = "reset_destroy"
    /\ \E i \in Threads : DestroyWithFailure(i)
    /\ main_pc' = "reset_init"
    /\ UNCHANGED <<malloc_zero_null, fault, stderr_log, exit_status, ops, revision,
                   NUM_THREADS, total_words, script, ip, loop_i, word_index,
                   thread_data, thr, out>>

\* main's cleanup with a failing sem_destroy.
CleanupDestroyFails ==
    /\ main_pc = "destroy"
    /\ \E i \in Threads : DestroyWithFailure(i)
    /\ main_pc' = "exit"
    /\ exit_status' = ExitSuccess
    /\ UNCHANGED <<malloc_zero_null, fault, stderr_log, ops, revision,
                   NUM_THREADS, total_words, script, ip, loop_i, word_index,
                   thread_data, thr, out>>

(***************************************************************************)
(* Specifications                                                          *)
(***************************************************************************)

\* The state when main starts, for the given numbers of threads and words, calls
\* of main and answers of the platform's malloc(0).
InitState(threads, words, scripts, zero_null) ==
    /\ revision \in {1, 2}
    /\ NUM_THREADS \in threads
    /\ total_words \in words
    /\ script \in scripts
    /\ malloc_zero_null \in zero_null
    /\ fault = "none"
    /\ stderr_log = << >>
    /\ destroy_failed = FALSE
    /\ exit_status = Running
    /\ ops = [i \in Threads |-> NoOps]
    /\ semaphores = [i \in Threads |-> Destroyed]
    /\ main_pc = "init"
    /\ ip = 0
    /\ loop_i = 0
    /\ word_index = 0
    /\ thread_data = [i \in Threads |-> NoData]
    /\ thr = [i \in Threads |-> [pc |-> "none", i |-> 0, joined |-> FALSE]]
    /\ out = << >>

InitWith(scripts) == InitState(1 .. MaxThreads, 0 .. MaxWords, scripts, {FALSE})

\* The program: main as written.
Init == InitWith({MainScript})

MainStep ==
    \/ MainInitSemaphores
    \/ Create
    \/ Join
    \/ ResetDestroy
    \/ ResetInit
    \/ MainCleanup

ThreadStep(t) ==
    /\ t \in Threads
    /\ \/ SemWait(t)
       \/ SkipWait(t)
       \/ Emit(t)
       \/ SemPost(t)
       \/ SkipPost(t)
       \/ Return(t)

Next ==
    \/ MainInitSemaphores
    \/ Create
    \/ Join
    \/ ResetDestroy
    \/ ResetInit
    \/ MainCleanup
    \/ \E t \in Threads : SemWait(t)
    \/ \E t \in Threads : SkipWait(t)
    \/ \E t \in Threads : Emit(t)
    \/ \E t \in Threads : SemPost(t)
    \/ \E t \in Threads : SkipPost(t)
    \/ \E t \in Threads : Return(t)

Spec == Init /\ [][Next]_vars

\* The threads are preemptively scheduled OS threads: main and every worker that
\* can take a step eventually takes one.
Fairness ==
    /\ WF_vars(MainStep)
    /\ \A t \in 0 .. (MaxThreads - 1) : WF_vars(ThreadStep(t))

FairSpec == Spec /\ Fairness

\* The program with the library calls allowed to fail, on a platform of either
\* kind of malloc(0).
EnvInit == InitState(1 .. MaxThreads, 0 .. MaxWords, {MainScript}, BOOLEAN)

NextEnv ==
    \/ Next
    \/ SemInitFails
    \/ CreateZeroAllocFails
    \/ CreateMallocFails
    \/ CreateThreadFails
    \/ ResetDestroyFails
    \/ CleanupDestroyFails

EnvSpec == EnvInit /\ [][NextEnv]_vars

\* A library call need not ever fail for want of a resource; the NULL for a
\* zero-size request is what that platform's malloc always answers.
FairEnvSpec == EnvSpec /\ Fairness /\ WF_vars(CreateZeroAllocFails)

\* The program's own size: NUM_THREADS is 5 and the paragraph has 33 words.
ProgramThreads == 5

ProgramWords == 33

\* The program at its own size up to the end of reset_semaphores() (the normal
\* run and the reset), beside the whole program at the sizes of Init.
SizedInit ==
    \/ Init
    \/ InitState({ProgramThreads}, {ProgramWords}, {<< "sync", "reset" >>}, {FALSE})

SizedSpec == SizedInit /\ [][Next]_vars

\* A test driver in place of main's fixed sequence of calls: a second normal run
\* on the semaphores as the first left them, and reset_semaphores() called twice
\* after a run of either mode.
ReuseScript == << "sync", "sync" >>

HarnessScripts ==
    { ReuseScript,
      << "sync", "reset", "reset" >>,
      << "chaos", "reset", "reset" >> }

HarnessInit == InitWith(HarnessScripts)

HarnessSpec == HarnessInit /\ [][Next]_vars

(***************************************************************************)
(* Definitions shared by the properties                                    *)
(***************************************************************************)

\* Call k of the script is op.
IsRun(k, op) == k \in 1 .. Len(script) /\ script[k] = op

\* The entries a given run wrote to stdout, in order.
RunLog(k) == SelectSeq(out, LAMBDA e : e.run = k)

\* Call k of the script has returned.
RunDone(k) == ip > k

\* A worker that has returned and been joined.
Joined(t) == thr[t].pc = "done" /\ thr[t].joined

\* A worker that exists and has not returned.
Live(t) == thr[t].pc \in {"loop", "emit", "post"}

\* A normal-mode worker between the return of sem_wait and its sem_post.
InCritical(t) == thr[t].pc \in {"emit", "post"} /\ thread_data[t].is_chaos_mode = 0

\* A normal-mode worker with words left, at sem_wait with its semaphore at 0.
Blocked(t) ==
    /\ thr[t].pc = "loop"
    /\ thr[t].i < thread_data[t].word_count
    /\ thread_data[t].is_chaos_mode = 0
    /\ semaphores[thread_data[t].sem_wait] <= 0

\* The size the partition law gives share i.
LawCount(i) ==
    (total_words \div NUM_THREADS) + (IF i < total_words % NUM_THREADS THEN 1 ELSE 0)

\* The rotation 0,1,...,N-1,0,1,... with a thread left out of round k once its
\* share of LawCount words is used up: entries <<thread, k>>, from round k, thread i.
RECURSIVE RotationFrom(_, _)
RotationFrom(k, i) ==
    IF k * NUM_THREADS >= total_words THEN << >>
    ELSE IF i >= NUM_THREADS THEN RotationFrom(k + 1, 0)
    ELSE (IF k < LawCount(i) THEN << <<i, k>> >> ELSE << >>) \o RotationFrom(k, i + 1)

Rotation == RotationFrom(0, 0)

IsPrefix(s, t) == Len(s) <= Len(t) /\ \A j \in 1 .. Len(s) : s[j] = t[j]

\* The thread ids of a log, in order.
Tids(log) == [j \in 1 .. Len(log) |-> log[j].tid]

(***************************************************************************)
(* C1                                                                      *)
(***************************************************************************)

\* C1: in a normal (synchronized) run at most one worker is between the return
\* of its sem_wait and its sem_post, in every reachable state.
C1_MutualExclusion ==
    Cardinality({t \in Threads : InCritical(t)}) <= 1

\* C1 witness: one worker is in its delay-and-emit step while another worker,
\* with words left, waits at its closed semaphore.
C1_Witness ==
    \E t, u \in Threads : t # u /\ InCritical(t) /\ thr[t].pc = "emit" /\ Blocked(u)

(***************************************************************************)
(* C2                                                                      *)
(***************************************************************************)

\* C2: rotation law.  At every moment of a normal run the thread ids printed so
\* far are a prefix of the rotation 0,1,...,N-1,0,1,... (a thread left out once
\* its share is used up), also while later threads are not created yet; when the
\* run is over they are the whole rotation, total_words entries long.
C2_RotationLaw ==
    \A k \in 1 .. Len(script) :
        script[k] = "sync" =>
            /\ IsPrefix(Tids(RunLog(k)), [j \in 1 .. Len(Rotation) |-> Rotation[j][1]])
            /\ RunDone(k) => Len(RunLog(k)) = total_words

\* C2 witness: a finished normal run in which the shares differ in size, so that
\* the last round leaves threads out, with more than one full round.
C2_Witness ==
    /\ IsRun(1, "sync") /\ RunDone(1)
    /\ NUM_THREADS >= 2
    /\ total_words > NUM_THREADS
    /\ total_words % NUM_THREADS # 0
    /\ Len(RunLog(1)) = total_words

(***************************************************************************)
(* C3                                                                      *)
(***************************************************************************)

\* C3: no deadlock.  Under fair scheduling the normal run started from the
\* initial semaphores completes: every worker returns and the join loop ends.
C3_SyncRunCompletes ==
    <>(RunDone(1) /\ \A t \in Threads : Joined(t))

\* C3 witness: the normal run is over with a single worker, which waited on and
\* signalled the same semaphore for each of several words.
C3_Witness ==
    /\ IsRun(1, "sync") /\ ip = 2
    /\ NUM_THREADS = 1
    /\ total_words >= 2
    /\ Len(RunLog(1)) = total_words
    /\ \A t \in Threads : Joined(t)

(***************************************************************************)
(* C4, C5                                                                  *)
(***************************************************************************)

\* print_paragraph has filled in thread_data[0..N-1] for the current run.
Partitioned == main_pc = "join"

\* The words 0 .. total_words-1 in their original order.
AllWords == [j \in 1 .. total_words |-> j - 1]

\* The shares of threads i, i+1, ..., N-1 one after the other.
RECURSIVE ConcatFrom(_)
ConcatFrom(i) ==
    IF i >= NUM_THREADS THEN << >> ELSE thread_data[i].words \o ConcatFrom(i + 1)

RECURSIVE SumCountsFrom(_)
SumCountsFrom(i) ==
    IF i >= NUM_THREADS THEN 0 ELSE thread_data[i].word_count + SumCountsFrom(i + 1)

\* Sizes as the law gives them, summing to M, differing by at most 1; every word
\* in exactly one share; every share in ascending order of word index.
SizesAndCover ==
    /\ \A i \in Threads :
          /\ thread_data[i].word_count = LawCount(i)
          /\ Len(thread_data[i].words) = thread_data[i].word_count
          /\ \A k \in 1 .. (Len(thread_data[i].words) - 1) :
                thread_data[i].words[k] < thread_data[i].words[k + 1]
    /\ SumCountsFrom(0) = total_words
    /\ \A i, j \in Threads :
          thread_data[i].word_count - thread_data[j].word_count \in {-1, 0, 1}
    /\ \A w \in 0 .. (total_words - 1) :
          Cardinality({<<i, k>> \in Threads \X (1 .. total_words) :
                          k <= Len(thread_data[i].words)
                          /\ thread_data[i].words[k] = w}) = 1

WordsOf(log) == [j \in 1 .. Len(log) |-> log[j].word]

\* C5: with 4 words and 2 threads the shares are words 0,2 and words 1,3, and a
\* finished normal run has printed the words in their original order 0..M-1.
C5_EmissionInOriginalOrder ==
    /\ Partitioned /\ total_words = 4 /\ NUM_THREADS = 2 =>
          thread_data[0].words = <<0, 2>> /\ thread_data[1].words = <<1, 3>>
    /\ IsRun(1, "sync") /\ RunDone(1) => WordsOf(RunLog(1)) = AllWords

(***************************************************************************)
(* C6, C7 (under HarnessSpec)                                              *)
(***************************************************************************)

\* C6 as stated: for every M >= 1 and N >= 2 the second normal run on the
\* semaphores as the first left them never completes.
C6_AsStated ==
    script = ReuseScript /\ total_words >= 1 /\ NUM_THREADS >= 2 => ~RunDone(2)

\* C6 amended: when M mod N # 0 the second normal run on the semaphores as the
\* first left them never completes: main never gets past joining thread 0,
\* which never returns.  When M mod N = 0 the second run starts from the initial
\* configuration, like the first.
C6_ReuseDeadlocks ==
    /\ script = ReuseScript /\ total_words % NUM_THREADS # 0 =>
          /\ ~RunDone(2)
          /\ ip = 2 /\ main_pc = "join" => loop_i = 0 /\ thr[0].pc # "done"
    /\ script = ReuseScript /\ total_words % NUM_THREADS = 0
          /\ ip = 2 /\ main_pc = "create" /\ loop_i = 0 =>
          semaphores = [i \in Threads |-> IF i = 0 THEN 1 ELSE 0]

\* C6 witness: the second run is stuck: main waits to join thread 0, thread 0
\* has words left and waits at its closed semaphore, and every other thread has
\* returned or waits at a closed semaphore too.
C6_Witness ==
    /\ script = ReuseScript /\ ip = 2 /\ main_pc = "join"
    /\ total_words % NUM_THREADS # 0
    /\ Blocked(0)
    /\ \A t \in Threads : thr[t].pc = "done" \/ Blocked(t)

\* The initial configuration: semaphore 0 at 1, the others at 0.
InitialConfiguration == [i \in Threads |-> IF i = 0 THEN 1 ELSE 0]

\* reset_semaphores() has just returned: main is about to start the next call.
JustReset ==
    /\ ip >= 2
    /\ script[ip - 1] = "reset"
    /\ main_pc = PcAt(ip)
    /\ loop_i = 0

\* C7: whenever reset_semaphores() has returned the semaphores are in the initial
\* configuration, whatever the previous run and its mode were, and after a
\* second reset in a row as after the first.
C7_ResetReproducesInitial ==
    JustReset => semaphores = InitialConfiguration

\* C7 witness: the second of two resets in a row has returned, after a normal
\* run that left the open semaphore away from index 0.
C7_Witness ==
    /\ JustReset
    /\ ip = 4 /\ script[1] = "sync" /\ script[2] = "reset"
    /\ total_words % NUM_THREADS # 0

(***************************************************************************)
(* C8, C9, C10                                                             *)
(***************************************************************************)

\* C8: reset_semaphores and the final destroy_semaphores run only when every
\* worker of the run before has returned and been joined; the live workers all
\* belong to the run main is in; no live worker's semaphore is destroyed.
C8_PhaseSequencing ==
    /\ main_pc \in {"reset_destroy", "reset_init", "destroy", "exit"} =>
          \A t \in Threads : Joined(t)
    /\ \A t \in Threads :
          Live(t) =>
            /\ main_pc \in {"create", "join"}
            /\ thread_data[t].is_chaos_mode = ModeOf(script[ip])
            /\ semaphores[thread_data[t].sem_wait] # Destroyed
            /\ semaphores[thread_data[t].sem_signal] # Destroyed

\* C8 witness: reset_semaphores is between its destroy and its init, after a
\* run in which every one of several workers printed.
C8_Witness ==
    /\ main_pc = "reset_init"
    /\ NUM_THREADS >= 2
    /\ total_words >= NUM_THREADS
    /\ \A t \in Threads : Joined(t) /\ semaphores[t] = Destroyed

\* Main is in the chaos run at index k, or has just returned from it.
InChaosRun(k) ==
    /\ IsRun(k, "chaos")
    /\ \/ ip = k
       \/ ip = k + 1 /\ main_pc = PcAt(k + 1)

\* C9: from the start of a chaos run to its end the semaphores stay in the
\* initial configuration, and every live worker can take a step.
C9_ChaosTouchesNoGate ==
    \A k \in 1 .. Len(script) :
        InChaosRun(k) =>
            /\ semaphores = InitialConfiguration
            /\ \A t \in Threads : ip = k /\ Live(t) => ENABLED ThreadStep(t)

\* C9 witness: two chaos workers are in their delay-and-emit step at once, the
\* semaphore of one of them closed.
C9_Witness ==
    /\ IsRun(ip, "chaos")
    /\ \E t, u \in Threads :
          /\ t # u
          /\ thr[t].pc = "emit" /\ thr[u].pc = "emit"
          /\ semaphores[thread_data[u].sem_wait] = 0

\* Every word is in the log of run k exactly once, printed by the thread whose
\* share holds it.
EmittedOnce(k) ==
    /\ Len(RunLog(k)) = total_words
    /\ \A w \in 0 .. (total_words - 1) :
          \E j \in 1 .. total_words :
              /\ RunLog(k)[j].word = w
              /\ \E m \in 1 .. Len(thread_data[RunLog(k)[j].tid].words) :
                    thread_data[RunLog(k)[j].tid].words[m] = w

\* C10: under fair scheduling the chaos run ends, and when it has ended every
\* word has been printed exactly once, by its owner.
C10_ChaosRunEmitsAll ==
    /\ <>RunDone(3)
    /\ [](IsRun(3, "chaos") /\ RunDone(3) => EmittedOnce(3))

\* C10 witness: a finished chaos run that printed in the reverse of the rotation:
\* all words of the last thread first, those of thread 0 last.
C10_Witness ==
    /\ IsRun(3, "chaos") /\ RunDone(3)
    /\ NUM_THREADS >= 2
    /\ total_words > NUM_THREADS
    /\ Len(RunLog(3)) = total_words
    /\ \A j \in 1 .. (total_words - 1) : RunLog(3)[j].tid >= RunLog(3)[j + 1].tid
    /\ RunLog(3)[1].tid = NUM_THREADS - 1

(***************************************************************************)
(* C11                                                                     *)
(***************************************************************************)

\* The worker is in usleep((rand() % 91 + 10) * 1000) and printf: it reads and
\* writes the state of the process-wide rand() generator and the stdout stream.
AccessesLibraryState(t) == thr[t].pc = "emit"

\* C11: apart from the semaphores no mutable state is shared by running workers:
\* in either mode no two workers are at the same time in the step that uses the
\* rand() generator and stdout.
C11_NoOtherSharedState ==
    \A t, u \in Threads :
        t # u => ~(AccessesLibraryState(t) /\ AccessesLibraryState(u))

(***************************************************************************)
(* C12, C13, C14 (under EnvSpec)                                           *)
(***************************************************************************)

\* C12: with fewer words than threads (some or all shares empty) and no resource
\* running out, the process takes no failure exit (the zero-size allocation of
\* an empty share is no allocation failure), and a worker with an empty share
\* returns without a sem_wait or a sem_post.
C12_EmptySharesHandled ==
    total_words < NUM_THREADS =>
        /\ fault \in {"none", "malloc_zero"} => exit_status # ExitFailure
        /\ \A t \in Threads :
              thr[t].pc = "done" /\ thread_data[t].word_count = 0 => ops[t] = NoOps

\* The process has ended: nothing of it can take a step.
ProcessEnded ==
    /\ main_pc = "exit"
    /\ \A t \in Threads : thr[t].pc \notin {"loop", "emit", "post"}
    /\ ~ENABLED NextEnv

\* C13: fail fast.  A failed share allocation, sem_init or pthread_create ends
\* the process in the same step with EXIT_FAILURE, whatever workers are live:
\* nothing runs after it.  The status is EXIT_FAILURE only after such a failure,
\* and 0 only when none has happened and both runs have completed; under fair
\* scheduling the process does end.
C13_FailFast ==
    /\ [](/\ fault # "none" => exit_status = ExitFailure /\ ProcessEnded
          /\ exit_status = ExitFailure => fault # "none"
          /\ exit_status = ExitSuccess =>
                /\ fault = "none"
                /\ RunDone(3)
                /\ Len(RunLog(1)) = total_words
                /\ Len(RunLog(3)) = total_words
                /\ ProcessEnded)
    /\ <>(exit_status # Running)

\* C13 witness: pthread_create has failed in the chaos run while a worker created
\* before was still running; the process has ended with EXIT_FAILURE.
C13_Witness ==
    /\ fault = "pthread_create"
    /\ exit_status = ExitFailure
    /\ ip = 3
    /\ \E t \in Threads : thr[t].pc = "killed"
    /\ \E t \in Threads : thr[t].pc = "none" \/ thr[t].joined

\* C14: a failing sem_destroy, in reset_semaphores or in main's cleanup, is
\* fatal like a failing sem_init: the process has ended with a diagnostic and
\* EXIT_FAILURE, and has not gone on to the next phase.
C14_DestroyFailureIsFatal ==
    destroy_failed =>
        /\ exit_status = ExitFailure
        /\ main_pc = "exit"
        /\ stderr_log # << >>

(***************************************************************************)
(* C15, C16                                                                *)
(***************************************************************************)

\* A worker of a normal run that has been created (and may have returned).
SyncWorker(t) == thr[t].pc # "none" /\ thread_data[t].is_chaos_mode = 0

\* The number of words worker t has printed in run k.
Emitted(k, t) == Len(SelectSeq(RunLog(k), LAMBDA e : e.tid = t))

\* C15: a worker of the normal run makes one sem_wait, on semaphore i, and one
\* sem_post, on semaphore (i+1) mod N, for each word it prints and no other:
\* when it has returned it has made word_count of each, and none with an empty
\* share.
C15_OneWaitOnePostPerItem ==
    IsRun(1, "sync") =>
        \A t \in Threads :
            SyncWorker(t) =>
                /\ ops[t].waited \subseteq {t}
                /\ ops[t].posted \subseteq {(t + 1) % NUM_THREADS}
                /\ ops[t].waits = Emitted(1, t) + (IF thr[t].pc = "emit" THEN 1 ELSE 0)
                /\ ops[t].posts = Emitted(1, t) - (IF thr[t].pc = "post" THEN 1 ELSE 0)
                /\ ops[t].waits <= thread_data[t].word_count
                /\ thr[t].pc = "done" =>
                      /\ ops[t].waits = thread_data[t].word_count
                      /\ ops[t].posts = thread_data[t].word_count
                /\ thread_data[t].word_count = 0 => ops[t] = NoOps

\* C15 witness: two workers of the normal run have returned, one after two
\* words and one after one.
C15_Witness ==
    /\ IsRun(1, "sync")
    /\ \E t, u \in Threads :
          /\ SyncWorker(t) /\ thr[t].pc = "done" /\ ops[t].posts = 2
          /\ SyncWorker(u) /\ thr[u].pc = "done" /\ ops[u].posts = 1

\* The rounds of a normal run in which at least one worker prints.
Rounds == (total_words + NUM_THREADS - 1) \div NUM_THREADS

\* Worker t has acquired its semaphore and released the next one in round k.
TookPart(t, k) == ops[t].waits > k /\ ops[t].posts > k

\* The normal run has just ended: main is about to start its next call.
SyncRunJustEnded ==
    /\ IsRun(1, "sync")
    /\ ip = 2
    /\ main_pc = PcAt(2)
    /\ loop_i = 0

\* C16 as stated: in every round in which some worker prints, each of the N
\* workers takes part in the rotation, also one whose share is used up.
C16_AsStated ==
    SyncRunJustEnded =>
        \A k \in 0 .. (Rounds - 1) : \A t \in Threads : TookPart(t, k)

\* C16 amended: in each of the M div N full rounds all N workers take part; in
\* the last, partial round (M mod N # 0) only workers 0 .. (M mod N) - 1 do, and
\* a worker whose share is used up makes no further sem_wait or sem_post.
C16_RingAdvance ==
    SyncRunJustEnded =>
        \A k \in 0 .. (Rounds - 1) : \A t \in Threads :
            TookPart(t, k) <=>
                (k < total_words \div NUM_THREADS \/ t < total_words % NUM_THREADS)

\* C16 witness: a normal run has ended after more than one round, and in its
\* last round some worker took part and some worker did not.
C16_Witness ==
    /\ SyncRunJustEnded
    /\ Rounds >= 2
    /\ \E t, u \in Threads : TookPart(t, Rounds - 1) /\ ~TookPart(u, Rounds - 1)

(***************************************************************************)
(* C17, C18, C19                                                           *)
(***************************************************************************)

RECURSIVE SumSemaphoresFrom(_)
SumSemaphoresFrom(i) ==
    IF i >= NUM_THREADS THEN 0 ELSE semaphores[i] + SumSemaphoresFrom(i + 1)

\* Main is in the normal run at index 1, or has just returned from it.
InSyncRun == IsRun(1, "sync") /\ (ip = 1 \/ SyncRunJustEnded)

\* C17: token conservation.  Throughout a normal run the semaphore counts plus
\* the number of workers between sem_wait and sem_post add up to 1, so every
\* count is 0 or 1 and at most one semaphore is open.
C17_TokenConservation ==
    InSyncRun =>
        /\ SumSemaphoresFrom(0) + Cardinality({t \in Threads : InCritical(t)}) = 1
        /\ \A i \in Threads : semaphores[i] \in {0, 1}
        /\ Cardinality({i \in Threads : semaphores[i] = 1}) <= 1

\* C17 witness: in the second round of a normal run a worker holds the token:
\* it has printed and not yet posted, and every semaphore is at 0.
C17_Witness ==
    /\ InSyncRun
    /\ NUM_THREADS >= 2
    /\ \E t \in Threads : InCritical(t) /\ thr[t].pc = "post" /\ thr[t].i = 1
    /\ \A i \in Threads : semaphores[i] = 0

\* C18: when the normal run over M words has ended, semaphore M mod N is at 1
\* and every other one at 0 (for the program's 33 words and 5 threads:
\* semaphore 3 at 1, semaphore 0 at 0), which is the initial configuration
\* exactly when M mod N = 0.
C18_FinalGateState ==
    SyncRunJustEnded =>
        /\ semaphores =
              [i \in Threads |-> IF i = total_words % NUM_THREADS THEN 1 ELSE 0]
        /\ semaphores = InitialConfiguration <=> total_words % NUM_THREADS = 0
        /\ NUM_THREADS = ProgramThreads /\ total_words = ProgramWords =>
              semaphores[3] = 1 /\ semaphores[0] = 0

\* C18 witness: the normal run of the program's own 33 words on 5 threads has
\* ended, with everything printed and the token on semaphore 3.
C18_Witness ==
    /\ SyncRunJustEnded
    /\ NUM_THREADS = ProgramThreads
    /\ total_words = ProgramWords
    /\ Len(RunLog(1)) = ProgramWords
    /\ semaphores[3] = 1

(***************************************************************************)
(* C19                                                                     *)
(***************************************************************************)

\* The words worker t has printed in run k, in the order it printed them.
EmissionsOf(k, t) == WordsOf(SelectSeq(RunLog(k), LAMBDA e : e.tid = t))

\* C19: in every run, normal or chaos, the j-th word a worker has printed is
\* words[j] of its own share, whatever the interleaving: what it has printed
\* is at every moment a prefix of its share, and the whole share once the run
\* has ended.
C19_PerWorkerOrder ==
    \A k \in 1 .. Len(script) : \A t \in Threads :
        script[k] \in {"sync", "chaos"} =>
            /\ Len(EmissionsOf(k, t)) <= Len(thread_data[t].words)
            /\ \A j \in 1 .. Len(EmissionsOf(k, t)) :
                  EmissionsOf(k, t)[j] = thread_data[t].words[j]
            /\ RunDone(k) => EmissionsOf(k, t) = thread_data[t].words

\* C19 witness: a finished chaos run that broke the order between workers (its
\* first word is not word 0 and a later worker printed before an earlier one)
\* after a finished normal run, with a worker that printed two words or more
\* in each of the two runs.
C19_Witness ==
    /\ IsRun(1, "sync") /\ IsRun(3, "chaos") /\ RunDone(3)
    /\ Len(RunLog(3)) >= 2
    /\ RunLog(3)[1].word # 0
    /\ \E j \in 1 .. (Len(RunLog(3)) - 1) : RunLog(3)[j].tid > RunLog(3)[j + 1].tid
    /\ \E t \in Threads :
          /\ Len(EmissionsOf(1, t)) >= 2
          /\ Len(EmissionsOf(3, t)) >= 2
          /\ EmissionsOf(3, t) = thread_data[t].words

=============================================================================
